---- MODULE Spec2Model ----
(***************************************************************************)
(* AudioLibraryOfBabel (src/main.js): a one-second mono waveform is packed *)
(* into one big integer, base 65536, one digit per sample, and unpacked    *)
(* again.                                                                  *)
(*                                                                         *)
(* Scaling.  The program works with BASE = 65536 and BITRATE = 48000; the  *)
(* identifiers have 48000 digits of 16 bits.  The model keeps the code's   *)
(* arithmetic and scales the two sizes: a sample has SampleBits bits       *)
(* (BASE = 2^SampleBits, the offset 32768 is BASE/2, the full scale 32767  *)
(* is BASE/2 - 1) and a canonical buffer has BITRATE frames.               *)
(*                                                                         *)
(* Floating point samples (Float32Array elements) are exact rationals with *)
(* the common denominator Den: the integer k stands for the sample k/Den.  *)
(* The model ignores binary rounding of float32/float64.                   *)
(*                                                                         *)
(* An optional value (a local that may still be undefined) is a sequence   *)
(* of length 0 or 1.                                                       *)
(***************************************************************************)
EXTENDS Integers, Sequences, FiniteSets

VARIABLES
    codec,                \* the encoder loop and the decoder loop run on their own
    idinput,              \* document.getElementById("idinput").value
    idoutput,             \* document.getElementById("idoutput").textContent
    lastGeneratedBuffer,  \* window.lastGeneratedBuffer
    downloadDisplay,      \* document.getElementById("download").style.display
    up                    \* the pending file uploads: one reader.onload each

vars == <<codec, idinput, idoutput, lastGeneratedBuffer, downloadDisplay, up>>

page == <<idinput, idoutput, lastGeneratedBuffer, downloadDisplay>>

----------------------------------------------------------------------------
(* Sizes *)

\* bits of one quantized sample (16 in the program)
SampleBits == 3

\* frames of a canonical buffer and its sample rate (48000 in the program)
BITRATE == 3

\* file uploads pending at the same time
NumUploads == 2

\* identifiers below zero that the user may type
NegIds == 4

BASE == 2 ^ SampleBits

\* the literal 32768: the shift of a sample into a digit
Offset == BASE \div 2

\* the literal 32767: the full scale of a normalized sample
FullScale == Offset - 1

\* denominator of the floating point samples
Den == 4 * FullScale

\* RADIX^LENGTH: the number of identifiers of the defined domain
IdDomain == BASE ^ BITRATE

----------------------------------------------------------------------------
(* JavaScript arithmetic *)

Abs(x) == IF x < 0 THEN -x ELSE x

SeqMax(s) == CHOOSE m \in {s[i] : i \in DOMAIN s} : \A i \in DOMAIN s : s[i] <= m

\* Math.round of the rational n/d, d > 0: the nearest integer, a half going up
MathRound(n, d) == (2 * n + d) \div (2 * d)

\* BigInt division truncates towards zero
BigIntDiv(a, b) == IF a >= 0 THEN a \div b ELSE -((-a) \div b)

\* BigInt remainder has the sign of the dividend
BigIntRem(a, b) == IF a >= 0 THEN a % b ELSE -((-a) % b)

Reverse(s) == [i \in 1..Len(s) |-> s[Len(s) + 1 - i]]

DigitChars == <<"0", "1", "2", "3", "4", "5", "6", "7", "8", "9">>

DigitVal(c) == (CHOOSE d \in 1..10 : DigitChars[d] = c) - 1

RECURSIVE DigitsOf(_)
DigitsOf(n) ==
    IF n < 10 THEN <<DigitChars[n + 1]>>
    ELSE Append(DigitsOf(n \div 10), DigitChars[(n % 10) + 1])

\* BigInt.prototype.toString(): decimal digits, a minus sign before a negative
ToString(n) == IF n < 0 THEN <<"-">> \o DigitsOf(-n) ELSE DigitsOf(n)

RECURSIVE DigitsValue(_, _)
DigitsValue(text, acc) ==
    IF text = <<>> THEN acc
    ELSE DigitsValue(Tail(text), acc * 10 + DigitVal(Head(text)))

IsDigits(text) == \A i \in DOMAIN text : \E d \in 1..10 : DigitChars[d] = text[i]

\* BigInt(string): the empty string is 0n, a decimal literal its value, and
\* anything else a SyntaxError
BigIntParse(text) ==
    IF text = <<>> THEN [ok |-> TRUE, value |-> 0]
    ELSE IF Head(text) = "-" /\ Len(text) > 1 /\ IsDigits(Tail(text))
    THEN [ok |-> TRUE, value |-> -DigitsValue(Tail(text), 0)]
    ELSE IF IsDigits(text)
    THEN [ok |-> TRUE, value |-> DigitsValue(text, 0)]
    ELSE [ok |-> FALSE, value |-> 0]

----------------------------------------------------------------------------
(* The codec: normalizeSamples, the encoder loop, the decoder loop *)

\* normalizeSamples without the division by the peak
normalizeSamplesNoPeak(samples) ==
    LET maxSample == SeqMax([i \in DOMAIN samples |-> Abs(samples[i])])
    IN  IF maxSample = 0 THEN samples
        ELSE [i \in DOMAIN samples |-> MathRound(samples[i] * FullScale, Den)]

\* normalizeSamples scaling to 32768 in place of 32767
normalizeSamplesToOffset(samples) ==
    LET maxSample == SeqMax([i \in DOMAIN samples |-> Abs(samples[i])])
    IN  IF maxSample = 0 THEN samples
        ELSE [i \in DOMAIN samples |-> MathRound(samples[i] * Offset, maxSample)]

normalizeSamples(samples) ==
    LET maxSample == SeqMax([i \in DOMAIN samples |-> Abs(samples[i])])
    IN  IF maxSample = 0 THEN samples
        ELSE [i \in DOMAIN samples |-> MathRound(samples[i] * FullScale, maxSample)]

RECURSIVE EncoderFrom(_, _, _)
EncoderFrom(normalizedSamples, i, uid) ==
    IF i > Len(normalizedSamples) THEN uid
    ELSE EncoderFrom(normalizedSamples, i + 1,
                     uid * BASE + (normalizedSamples[i] + Offset))

\* the encoder loop without the shift of a sample by 32768
EncoderLoopNoOffset(normalizedSamples) ==
    LET NoOffset[i \in 0..Len(normalizedSamples)] ==
            IF i = 0 THEN 0 ELSE NoOffset[i - 1] * BASE + normalizedSamples[i]
    IN  NoOffset[Len(normalizedSamples)]

\* let uid = BigInt(0); for (i ...) uid = uid * BASE + (sample + 32768)
EncoderLoop(normalizedSamples) == EncoderFrom(normalizedSamples, 1, 0)

\* the decoder loop running until the identifier is used up, not BITRATE times
RECURSIVE DecoderWhileDigits(_, _, _)
DecoderWhileDigits(remainingId, i, samples) ==
    IF remainingId = 0 THEN samples
    ELSE DecoderWhileDigits(BigIntDiv(remainingId, BASE), i + 1,
                            Append(samples, BigIntRem(remainingId, BASE) - Offset))

\* the decoder loop without samples.reverse()
DecoderLoopNoReverse(uniqueId) ==
    LET Digits[i \in 0..BITRATE] ==
            IF i = 0 THEN <<>>
            ELSE Append(Digits[i - 1],
                        BigIntRem(BigIntDiv(uniqueId, BASE ^ (i - 1)), BASE) - Offset)
    IN  Digits[BITRATE]

RECURSIVE DecoderFrom(_, _, _)
DecoderFrom(remainingId, i, samples) ==
    IF i >= BITRATE THEN samples
    ELSE DecoderFrom(BigIntDiv(remainingId, BASE), i + 1,
                     Append(samples, BigIntRem(remainingId, BASE) - Offset))

\* the first loop of idToWav and samples.reverse()
DecoderLoop(uniqueId) == Reverse(DecoderFrom(uniqueId, 0, <<>>))

\* the AudioBuffer idToWav returns: channelData[i] = samples[i] / 32767
idToWav(uniqueId) ==
    LET samples == DecoderLoop(uniqueId)
    IN  [origin |-> 0,
         numberOfChannels |-> 1,
         sampleRate |-> BITRATE,
         length |-> Len(samples),
         data |-> <<[i \in DOMAIN samples |-> (samples[i] * Den) \div FullScale]>>]

----------------------------------------------------------------------------
(* The page *)

NoText == [kind |-> "empty", digits |-> <<>>, message |-> ""]

IdText(id) == [kind |-> "id", digits |-> ToString(id), message |-> ""]

ErrorText(message) == [kind |-> "error", digits |-> <<>>, message |-> message]

PageInit ==
    /\ idinput = <<>>
    /\ idoutput = NoText
    /\ lastGeneratedBuffer = <<>>
    /\ downloadDisplay = ""

CodecIdle == codec = [pc |-> "idle", Q |-> <<>>, uid |-> 0, samples |-> <<>>]

----------------------------------------------------------------------------
(* SpecCodec: the two loops on every quantized sample sequence *)

QuantizedSeqs == [1..BITRATE -> (-Offset)..(Offset - 1)]

InitCodec ==
    /\ PageInit
    /\ up = <<>>
    /\ codec \in {[pc |-> "start", Q |-> q, uid |-> 0, samples |-> <<>>] :
                    q \in QuantizedSeqs}

CodecEncode ==
    /\ codec.pc = "start"
    /\ codec' = [codec EXCEPT !.pc = "encoded", !.uid = EncoderLoop(codec.Q)]
    /\ UNCHANGED <<page, up>>

CodecDecode ==
    /\ codec.pc = "encoded"
    /\ codec' = [codec EXCEPT !.pc = "decoded", !.samples = DecoderLoop(codec.uid)]
    /\ UNCHANGED <<page, up>>

NextCodec == CodecEncode \/ CodecDecode

SpecCodec == InitCodec /\ [][NextCodec]_vars

----------------------------------------------------------------------------
(* Audio buffers and the files the user may choose *)

\* An AudioBuffer.  origin tells the objects apart: the upload whose wavToId
\* call made the buffer, or 0 for a buffer made by idToWav.
AudioBuffer(origin, numberOfChannels, sampleRate, data) ==
    [origin |-> origin,
     numberOfChannels |-> numberOfChannels,
     sampleRate |-> sampleRate,
     length |-> Len(data[1]),
     data |-> data]

\* sample values of a mono recording: 0, and 1/4, 1/2 and 1 of either sign
AmpsMono ==
    {-Den, -(Den \div 2), -(Den \div 4), 0, Den \div 4, Den \div 2, Den}

\* sample values of one channel of several: -1, 0, 1
AmpsMulti == {-Den, 0, Den}

Amps(channels) == IF channels = 1 THEN AmpsMono ELSE AmpsMulti

Channels == 1..3

Rates == {BITRATE, 2 * BITRATE, BITRATE - 1}

Lengths == 1..(2 * BITRATE)

Constant(length, a) == [i \in 1..length |-> a]

\* The frames of one channel.  Every sequence of sample values is taken for
\* a buffer in canonical shape; the frames of any other buffer never reach
\* the normalizer, and each channel is one constant value.
ChannelData(channels, sampleRate, length) ==
    IF channels <= 2 /\ sampleRate = BITRATE /\ length = BITRATE
    THEN [1..length -> Amps(channels)]
    ELSE {Constant(length, a) : a \in Amps(channels)}

BufferData(channels, sampleRate, length) ==
    [1..channels -> ChannelData(channels, sampleRate, length)]

Silence(channels, length) == [c \in 1..channels |-> Constant(length, 0)]

\* What decodeAudioData makes of a file: a rejection, or the decoded audio.
\* The frames of a recording at another rate than the target are replaced
\* by the renderer's, so one recording stands for each such shape.
Undecodable ==
    [decodable |-> FALSE, numberOfChannels |-> 0, sampleRate |-> 0, data |-> <<>>]

Recording(channels, sampleRate, data) ==
    [decodable |-> TRUE, numberOfChannels |-> channels,
     sampleRate |-> sampleRate, data |-> data]

Files ==
    {Undecodable}
    \cup UNION {{Recording(c, BITRATE, d) : d \in BufferData(c, BITRATE, n)} :
                  c \in Channels, n \in Lengths}
    \cup {Recording(c, r, Silence(c, n)) :
            c \in Channels, r \in Rates \ {BITRATE}, n \in Lengths}

\* a waveform with one pulse of height a at its first frame
Pulse(length, a) == [i \in 1..length |-> IF i = 1 THEN a ELSE 0]

\* the files of the uploads that run together: two mono recordings with the
\* same identifier and different frames, a stereo recording, one too long,
\* one to resample, one with three channels and one that does not decode
PageFiles ==
    {Recording(1, BITRATE, <<Pulse(BITRATE, Den)>>),
     Recording(1, BITRATE, <<Pulse(BITRATE, Den \div 2)>>),
     Recording(2, BITRATE, <<Pulse(BITRATE, Den), Constant(BITRATE, -Den)>>),
     Recording(1, BITRATE, Silence(1, BITRATE + 1)),
     Recording(1, 2 * BITRATE, Silence(1, BITRATE)),
     Recording(3, BITRATE, Silence(3, BITRATE)),
     Undecodable}

----------------------------------------------------------------------------
(* wavToId, between its awaits *)

\* the length argument with the two rates exchanged
RenderLengthInverted(audioBuffer, targetSampleRate) ==
    (audioBuffer.length * audioBuffer.sampleRate) \div targetSampleRate

\* the length argument of new OfflineAudioContext(channels, length, rate):
\* audioBuffer.length * targetSampleRate / audioBuffer.sampleRate, which the
\* conversion to unsigned long truncates
RenderLength(audioBuffer, targetSampleRate) ==
    (audioBuffer.length * targetSampleRate) \div audioBuffer.sampleRate

\* what offlineContext.startRendering() may resolve to: the channels and the
\* rate of the context, its length, and frames the platform's resampler
\* chooses
Rendered(audioBuffer, targetSampleRate) ==
    LET length == RenderLength(audioBuffer, targetSampleRate)
    IN  {AudioBuffer(audioBuffer.origin, audioBuffer.numberOfChannels,
                     targetSampleRate, d) :
            d \in BufferData(audioBuffer.numberOfChannels, targetSampleRate, length)}

\* stereoToMono taking half the difference of the channels
stereoToMonoDifference(audioBuffer) ==
    [origin |-> audioBuffer.origin,
     numberOfChannels |-> 1,
     sampleRate |-> audioBuffer.sampleRate,
     length |-> audioBuffer.length,
     data |-> <<[i \in 1..audioBuffer.length |->
                   (audioBuffer.data[1][i] - audioBuffer.data[2][i]) \div 2]>>]

\* the body of stereoToMono after its check: monoChannel[i] = (left + right) / 2
stereoToMono(audioBuffer) ==
    AudioBuffer(audioBuffer.origin, 1, audioBuffer.sampleRate,
                <<[i \in 1..audioBuffer.length |->
                     (audioBuffer.data[1][i] + audioBuffer.data[2][i]) \div 2]>>)

\* the check after processing without its test of the channel count
IsCanonicalNoChannels(finalAudioBuffer) ==
    /\ finalAudioBuffer.sampleRate = BITRATE
    /\ finalAudioBuffer.length = BITRATE

\* the condition of the check after processing, negated
IsCanonical(finalAudioBuffer) ==
    /\ finalAudioBuffer.numberOfChannels = 1
    /\ finalAudioBuffer.sampleRate = BITRATE
    /\ finalAudioBuffer.length = BITRATE

Fulfilled(id, audioBuffer) ==
    [status |-> "fulfilled", id |-> id, audioBuffer |-> <<audioBuffer>>, message |-> ""]

\* catch (error) { throw new Error("Error processing WAV file: " + error.message) }
Rejected(message) ==
    [status |-> "rejected", id |-> 0, audioBuffer |-> <<>>,
     message |-> "Error processing WAV file: " \o message]

\* a reader.onload call: its place, the file it reads and the locals of its
\* wavToId call
Upload(file) ==
    [pc |-> "selected", file |-> file, audioBuffer |-> <<>>,
     finalAudioBuffer |-> <<>>, normalizedSamples |-> <<>>, uid |-> <<>>,
     result |-> <<>>]

Settle(u, result) ==
    up' = [up EXCEPT ![u].pc = "settled", ![u].result = <<result>>]

\* wavToId with the check after processing moved behind the encoder loop
FinishEncodeFirst(u, finalAudioBuffer) ==
    LET normalizedSamples == normalizeSamples(finalAudioBuffer.data[1])
        uid == EncoderLoop(normalizedSamples)
    IN  up' = [up EXCEPT ![u].pc = "settled",
                         ![u].finalAudioBuffer = <<finalAudioBuffer>>,
                         ![u].normalizedSamples = <<normalizedSamples>>,
                         ![u].uid = <<uid>>,
                         ![u].result =
                             IF IsCanonical(finalAudioBuffer)
                             THEN <<Fulfilled(uid, finalAudioBuffer)>>
                             ELSE <<Rejected("Invalid WAV file format after processing.")>>]

\* wavToId from the check after processing to its return
Finish(u, finalAudioBuffer) ==
    IF ~IsCanonical(finalAudioBuffer)
    THEN up' = [up EXCEPT ![u].pc = "settled",
                          ![u].finalAudioBuffer = <<finalAudioBuffer>>,
                          ![u].result =
                              <<Rejected("Invalid WAV file format after processing.")>>]
    ELSE LET normalizedSamples == normalizeSamples(finalAudioBuffer.data[1])
             uid == EncoderLoop(normalizedSamples)
         IN  up' = [up EXCEPT ![u].pc = "settled",
                              ![u].finalAudioBuffer = <<finalAudioBuffer>>,
                              ![u].normalizedSamples = <<normalizedSamples>>,
                              ![u].uid = <<uid>>,
                              ![u].result = <<Fulfilled(uid, finalAudioBuffer)>>]

----------------------------------------------------------------------------
(* The upload handler, one action per run between two awaits *)

\* the change listener: a file was chosen, reader.readAsArrayBuffer(file)
FileChange(u) ==
    /\ up[u].pc = "selected"
    /\ up' = [up EXCEPT ![u].pc = "reading"]
    /\ UNCHANGED <<codec, page>>

\* reader.onload calls wavToId, which runs to await decodeAudioData(buffer)
ReaderOnload(u) ==
    /\ up[u].pc = "reading"
    /\ up' = [up EXCEPT ![u].pc = "decoding"]
    /\ UNCHANGED <<codec, page>>

\* decodeAudioData settles; wavToId runs on into resampleToBitrate
DecodeSettled(u) ==
    /\ up[u].pc = "decoding"
    /\ LET file == up[u].file
       IN  IF ~file.decodable
           THEN Settle(u, Rejected("Unable to decode audio data"))
           ELSE LET audioBuffer ==
                        AudioBuffer(u, file.numberOfChannels, file.sampleRate, file.data)
                IN  IF audioBuffer.sampleRate = BITRATE
                    THEN up' = [up EXCEPT ![u].pc = "resampled",
                                          ![u].audioBuffer = <<audioBuffer>>,
                                          ![u].finalAudioBuffer = <<audioBuffer>>]
                    ELSE IF RenderLength(audioBuffer, BITRATE) = 0
                    THEN up' = [up EXCEPT ![u].pc = "settled",
                                          ![u].audioBuffer = <<audioBuffer>>,
                                          ![u].result =
                                              <<Rejected("OfflineAudioContext: length 0")>>]
                    ELSE up' = [up EXCEPT ![u].pc = "rendering",
                                          ![u].audioBuffer = <<audioBuffer>>]
    /\ UNCHANGED <<codec, page>>

\* offlineContext.startRendering() resolves; resampleToBitrate returns
RenderSettled(u) ==
    /\ up[u].pc = "rendering"
    /\ \E rendered \in Rendered(up[u].audioBuffer[1], BITRATE) :
          up' = [up EXCEPT ![u].pc = "resampled",
                           ![u].finalAudioBuffer = <<rendered>>]
    /\ UNCHANGED <<codec, page>>

\* wavToId after await resampleToBitrate: a stereo input goes through
\* stereoToMono and awaits it, any other runs on to the return
AfterResample(u) ==
    /\ up[u].pc = "resampled"
    /\ LET finalAudioBuffer == up[u].finalAudioBuffer[1]
       IN  IF up[u].audioBuffer[1].numberOfChannels = 2
           THEN IF finalAudioBuffer.numberOfChannels # 2
                THEN Settle(u, Rejected("Only stereo audio can be converted to mono."))
                ELSE up' = [up EXCEPT ![u].pc = "downmixed",
                                      ![u].finalAudioBuffer =
                                          <<stereoToMono(finalAudioBuffer)>>]
           ELSE Finish(u, finalAudioBuffer)
    /\ UNCHANGED <<codec, page>>

\* wavToId after await stereoToMono
AfterDownmix(u) ==
    /\ up[u].pc = "downmixed"
    /\ Finish(u, up[u].finalAudioBuffer[1])
    /\ UNCHANGED <<codec, page>>

\* the try branch showing the identifier and keeping no buffer
OnloadFulfilledIdOnly(u) ==
    /\ up[u].pc = "settled"
    /\ up[u].result[1].status = "fulfilled"
    /\ idoutput' = IdText(up[u].result[1].id)
    /\ up' = [up EXCEPT ![u].pc = "done"]
    /\ UNCHANGED <<codec, idinput, lastGeneratedBuffer, downloadDisplay>>

\* reader.onload after await wavToId: the try branch
OnloadFulfilled(u) ==
    /\ up[u].pc = "settled"
    /\ up[u].result[1].status = "fulfilled"
    /\ idoutput' = IdText(up[u].result[1].id)
    /\ lastGeneratedBuffer' = up[u].result[1].audioBuffer
    /\ downloadDisplay' = "block"
    /\ up' = [up EXCEPT ![u].pc = "done"]
    /\ UNCHANGED <<codec, idinput>>

\* reader.onload after await wavToId: the catch branch
OnloadRejected(u) ==
    /\ up[u].pc = "settled"
    /\ up[u].result[1].status = "rejected"
    /\ idoutput' = ErrorText("Error: " \o up[u].result[1].message)
    /\ downloadDisplay' = "none"
    /\ up' = [up EXCEPT ![u].pc = "done"]
    /\ UNCHANGED <<codec, idinput, lastGeneratedBuffer>>

\* several uploads pending together, each of one of a few files
InitPage ==
    /\ PageInit
    /\ CodecIdle
    /\ up \in [1..NumUploads -> {Upload(f) : f \in PageFiles}]

\* one upload, of any file
Init ==
    /\ PageInit
    /\ CodecIdle
    /\ up \in [{1} -> {Upload(f) : f \in Files}]

Next ==
    \/ \E u \in DOMAIN up : FileChange(u)
    \/ \E u \in DOMAIN up : ReaderOnload(u)
    \/ \E u \in DOMAIN up : DecodeSettled(u)
    \/ \E u \in DOMAIN up : RenderSettled(u)
    \/ \E u \in DOMAIN up : AfterResample(u)
    \/ \E u \in DOMAIN up : AfterDownmix(u)
    \/ \E u \in DOMAIN up : OnloadFulfilled(u)
    \/ \E u \in DOMAIN up : OnloadRejected(u)

Spec == Init /\ [][Next]_vars

SpecPage == InitPage /\ [][Next]_vars

----------------------------------------------------------------------------
(* SpecPlay: play() and randomplay() on what the user types *)

\* what the user may type into idinput: every identifier of the defined
\* domain, a few below zero, and identifiers above the domain: a digit
\* 1..BASE-1 at position BITRATE over low digits that are the least, the
\* middle or the greatest
LowDigits == {EncoderLoop(q) : q \in [1..BITRATE -> {-Offset, 0, Offset - 1}]}

TypedIds ==
    ((-NegIds)..(IdDomain - 1))
    \cup {top * IdDomain + low : top \in 1..(BASE - 1), low \in LowDigits}

\* the decimal texts of these, the empty text and two that are no number
IdTexts == {ToString(v) : v \in TypedIds} \cup {<<>>, <<"-">>, <<"x">>}

\* play() from BigInt(idinput.value) on; a SyntaxError ends it there
playFrom(text) ==
    LET id == BigIntParse(text)
    IN  IF ~id.ok
        THEN UNCHANGED <<lastGeneratedBuffer, downloadDisplay>>
        ELSE /\ lastGeneratedBuffer' = <<idToWav(id.value)>>
             /\ downloadDisplay' = "block"

\* play(), on the text the user typed
Play ==
    /\ playFrom(idinput)
    /\ UNCHANGED <<codec, idinput, idoutput, up>>

\* randomplay(): BigInt(Math.floor(Math.random() * BASE)) ** BigInt(BITRATE)
\* goes into idinput, then play()
RandomPlay(r) ==
    LET id == r ^ BITRATE
    IN  /\ idinput' = ToString(id)
        /\ playFrom(ToString(id))
        /\ UNCHANGED <<codec, idoutput, up>>

\* the page with a text typed into idinput
InitPlay ==
    /\ idinput \in IdTexts
    /\ idoutput = NoText
    /\ lastGeneratedBuffer = <<>>
    /\ downloadDisplay = ""
    /\ CodecIdle
    /\ up = <<>>

NextPlay ==
    \/ Play
    \/ \E r \in 0..(BASE - 1) : RandomPlay(r)

SpecPlay == InitPlay /\ [][NextPlay]_vars

----------------------------------------------------------------------------
(* The claims *)

\* the digit of id at position i, counted from the least significant, 0 first
Digit(id, i) == (id \div (BASE ^ i)) % BASE

Settled(u) == up[u].pc \in {"settled", "done"}

HasResult(u, status) == up[u].result # <<>> /\ up[u].result[1].status = status

\* C1: the decoder loop of idToWav, run on the identifier the encoder loop of
\* wavToId made of a quantized sequence Q (BITRATE samples, each in
\* -Offset..Offset-1), gives Q back, in the same order.
C1_RoundTrip == codec.pc = "decoded" => codec.samples = codec.Q

\* C1's case: a sequence from the least sample to the greatest went through
\* both loops
C1_Witness ==
    /\ codec.pc = "decoded"
    /\ codec.Q[1] = -Offset
    /\ codec.Q[BITRATE] = Offset - 1
    /\ codec.samples = codec.Q

\* C2: the identifier of every valid quantized sequence is at least 0 and
\* less than BASE^BITRATE.
C2_RangeBound ==
    codec.pc \in {"encoded", "decoded"} => 0 <= codec.uid /\ codec.uid < IdDomain

\* C2's case: the greatest sequence is encoded, to the greatest identifier
C2_Witness ==
    /\ codec.pc = "encoded"
    /\ \A i \in 1..BITRATE : codec.Q[i] = Offset - 1
    /\ codec.uid = IdDomain - 1

\* the input of upload u is valid and not degenerate
ValidInput(u) ==
    /\ up[u].audioBuffer # <<>>
    /\ up[u].audioBuffer[1].numberOfChannels \in {1, 2}
    /\ up[u].audioBuffer[1].sampleRate > 0
    /\ up[u].audioBuffer[1].length > 0

\* the canonicalization steps of upload u have produced their buffer
Canonicalized(u) == Settled(u) /\ up[u].finalAudioBuffer # <<>>

\* C3 as claimed: for every valid input that is not degenerate, the buffer
\* the canonicalization steps produce has one channel, the target rate and
\* the target length.
C3_AlwaysCanonical ==
    \A u \in DOMAIN up :
        ValidInput(u) /\ Canonicalized(u) =>
            /\ up[u].finalAudioBuffer[1].numberOfChannels = 1
            /\ up[u].finalAudioBuffer[1].sampleRate = BITRATE
            /\ up[u].finalAudioBuffer[1].length = BITRATE

\* C3, amended: for every valid input that is not degenerate and for which
\* the canonicalization steps produce a buffer, the buffer has one channel
\* and the target rate; its length is the input's when the input is at the
\* target rate, and the input's length times target rate over input rate,
\* truncated, when it is not; wavToId returns an identifier when that length
\* is the target length and fails its check after processing when it is not.
C3_CanonicalShape ==
    \A u \in DOMAIN up :
        ValidInput(u) /\ Canonicalized(u) =>
            LET input == up[u].audioBuffer[1]
                final == up[u].finalAudioBuffer[1]
            IN  /\ final.numberOfChannels = 1
                /\ final.sampleRate = BITRATE
                /\ final.length =
                       IF input.sampleRate = BITRATE THEN input.length
                       ELSE (input.length * BITRATE) \div input.sampleRate
                /\ HasResult(u, "fulfilled") <=> final.length = BITRATE
                /\ HasResult(u, "rejected") <=> final.length # BITRATE

\* C3's case: a stereo input at another rate was resampled and mixed down,
\* to another length than the target's
C3_Witness ==
    \E u \in DOMAIN up :
        /\ ValidInput(u) /\ Canonicalized(u)
        /\ up[u].audioBuffer[1].numberOfChannels = 2
        /\ up[u].audioBuffer[1].sampleRate # BITRATE
        /\ up[u].finalAudioBuffer[1].length # BITRATE
        /\ HasResult(u, "rejected")

\* C4: the output of normalizeSamples on a sequence that is not all zero has
\* greatest absolute value FullScale, every element an integer between
\* -FullScale and FullScale; on an all-zero sequence it is all zero.
C4_PeakNormalized ==
    \A u \in DOMAIN up :
        up[u].normalizedSamples # <<>> =>
            LET samples == up[u].finalAudioBuffer[1].data[1]
                out == up[u].normalizedSamples[1]
            IN  /\ DOMAIN out = DOMAIN samples
                /\ (\E i \in DOMAIN samples : samples[i] # 0) =>
                       /\ \A i \in DOMAIN out :
                              out[i] \in Int /\ -FullScale <= out[i] /\ out[i] <= FullScale
                       /\ \E i \in DOMAIN out : Abs(out[i]) = FullScale
                /\ (\A i \in DOMAIN samples : samples[i] = 0) =>
                       \A i \in DOMAIN out : out[i] = 0

\* C4's case: a sequence whose peak is a half, with a sample of a quarter
\* below zero that the rounding takes up
C4_Witness ==
    \E u \in DOMAIN up :
        /\ up[u].normalizedSamples # <<>>
        /\ LET samples == up[u].finalAudioBuffer[1].data[1]
               out == up[u].normalizedSamples[1]
           IN  /\ \A i \in DOMAIN samples : Abs(samples[i]) <= Den \div 2
               /\ \E i, j \in DOMAIN samples :
                      /\ samples[i] = Den \div 2
                      /\ out[i] = FullScale
                      /\ samples[j] = -(Den \div 4)
                      /\ out[j] = -(FullScale \div 2)

\* C5: when the decoded input has a channel count that is neither 1 nor 2,
\* wavToId ends in an error and produces no identifier: no downmix is tried
\* and the encoder loop is not reached.
C5_UnsupportedChannels ==
    \A u \in DOMAIN up :
        (up[u].audioBuffer # <<>> /\ up[u].audioBuffer[1].numberOfChannels \notin {1, 2}) =>
            /\ up[u].pc # "downmixed"
            /\ up[u].uid = <<>>
            /\ up[u].result # <<>> => up[u].result[1].status = "rejected"
            /\ Settled(u) => up[u].result # <<>>
            /\ up[u].pc = "done" => idoutput.kind = "error"

\* C5's case: an input of three channels in canonical rate and length went
\* through the handler
C5_Witness ==
    \E u \in DOMAIN up :
        /\ up[u].pc = "done"
        /\ up[u].audioBuffer # <<>>
        /\ up[u].audioBuffer[1].numberOfChannels = 3
        /\ up[u].audioBuffer[1].sampleRate = BITRATE
        /\ up[u].audioBuffer[1].length = BITRATE
        /\ idoutput.kind = "error"

\* C6: wavToId returns an identifier only when decoding, resampling, the
\* downmix and the check after processing all succeeded; on a failure at any
\* stage it throws, the encoder loop has not run, and the upload handler
\* shows an error text in idoutput and no identifier.
C6_ErrorsTerminal ==
    \A u \in DOMAIN up :
        /\ Settled(u) => up[u].result # <<>>
        /\ HasResult(u, "fulfilled") =>
               /\ up[u].file.decodable
               /\ up[u].audioBuffer # <<>>
               /\ up[u].finalAudioBuffer # <<>>
               /\ up[u].finalAudioBuffer[1].numberOfChannels = 1
               /\ up[u].finalAudioBuffer[1].sampleRate = BITRATE
               /\ up[u].finalAudioBuffer[1].length = BITRATE
               /\ up[u].uid = <<up[u].result[1].id>>
               /\ up[u].result[1].audioBuffer = up[u].finalAudioBuffer
               /\ up[u].pc = "done" => idoutput = IdText(up[u].result[1].id)
        /\ HasResult(u, "rejected") =>
               /\ up[u].uid = <<>>
               /\ up[u].normalizedSamples = <<>>
               /\ up[u].pc = "done" =>
                      /\ idoutput.kind = "error"
                      /\ idoutput.digits = <<>>
                      /\ downloadDisplay = "none"
        /\ (up[u].pc \notin {"settled", "done"}) => up[u].uid = <<>>

\* C6's case: a decoded input failed the check after processing and the
\* handler has shown the error
C6_Witness ==
    \E u \in DOMAIN up :
        /\ up[u].pc = "done"
        /\ up[u].finalAudioBuffer # <<>>
        /\ HasResult(u, "rejected")
        /\ idoutput =
               ErrorText("Error: Error processing WAV file: Invalid WAV file format after processing.")

CancellingStereo ==
    Recording(2, BITRATE, <<Constant(BITRATE, Den), Constant(BITRATE, -Den)>>)

\* C7: for the stereo input at target rate and length with the left channel
\* all 1.0 and the right all -1.0, the downmix is all 0.0, normalizeSamples
\* returns it unchanged and wavToId returns the identifier whose every digit
\* is Offset: Offset * (BASE^BITRATE - 1) / (BASE - 1).
C7_StereoCancellation ==
    \A u \in DOMAIN up :
        (up[u].file = CancellingStereo /\ Settled(u)) =>
            /\ up[u].finalAudioBuffer = <<AudioBuffer(u, 1, BITRATE, <<Constant(BITRATE, 0)>>)>>
            /\ up[u].normalizedSamples = <<Constant(BITRATE, 0)>>
            /\ HasResult(u, "fulfilled")
            /\ up[u].result[1].id = (Offset * (IdDomain - 1)) \div (BASE - 1)
            /\ \A i \in 0..(BITRATE - 1) : Digit(up[u].result[1].id, i) = Offset

\* C7's case: that input went through the handler and its identifier is shown
C7_Witness ==
    \E u \in DOMAIN up :
        /\ up[u].file = CancellingStereo
        /\ up[u].pc = "done"
        /\ idoutput = IdText((Offset * (IdDomain - 1)) \div (BASE - 1))

\* C8: for every identifier id >= 0, also above the domain, idToWav gives
\* exactly BITRATE samples, each in -Offset..Offset-1, and they are the
\* decoding of id mod BASE^BITRATE: the digits from position BITRATE on have
\* no effect.
C8_Truncation ==
    (lastGeneratedBuffer # <<>> /\ BigIntParse(idinput).value >= 0) =>
        LET id == BigIntParse(idinput).value
            buffer == lastGeneratedBuffer[1]
        IN  /\ BigIntParse(idinput).ok
            /\ buffer.length = BITRATE
            /\ Len(buffer.data[1]) = BITRATE
            /\ \A i \in 1..BITRATE :
                   \E sample \in (-Offset)..(Offset - 1) :
                       /\ buffer.data[1][i] * FullScale = sample * Den
                       /\ sample = Digit(id % IdDomain, BITRATE - i) - Offset
            /\ buffer = idToWav(id % IdDomain)

\* C8's case: an identifier above the domain was played
C8_Witness ==
    /\ lastGeneratedBuffer # <<>>
    /\ BigIntParse(idinput).ok
    /\ BigIntParse(idinput).value >= 3 * IdDomain
    /\ lastGeneratedBuffer[1].length = BITRATE

\* C9: every identifier wavToId returns has all its BITRATE digits in
\* 1..BASE-1: the digit 0 (the sample -Offset) is never produced, and the
\* identifier 0 is not returned.
C9_NoZeroDigit ==
    \A u \in DOMAIN up :
        HasResult(u, "fulfilled") =>
            /\ \A i \in 0..(BITRATE - 1) :
                   /\ 1 <= Digit(up[u].result[1].id, i)
                   /\ Digit(up[u].result[1].id, i) <= BASE - 1
            /\ up[u].result[1].id # 0
            /\ up[u].result[1].id < IdDomain

\* C9's case: an identifier with the least digit the pipeline makes, 1, and
\* the greatest, BASE-1, was returned
C9_Witness ==
    \E u \in DOMAIN up :
        /\ HasResult(u, "fulfilled")
        /\ \E i, j \in 0..(BITRATE - 1) :
               /\ Digit(up[u].result[1].id, i) = 1
               /\ Digit(up[u].result[1].id, j) = BASE - 1

\* C10: with several uploads pending and no play(), once a handler has
\* finished either idoutput shows an identifier, lastGeneratedBuffer is the
\* buffer of the upload that identifier came from and the download control
\* is visible, or idoutput shows an error and the download control is hidden.
C10_PageConsistent ==
    (\E u \in DOMAIN up : up[u].pc = "done") =>
        \/ /\ idoutput.kind = "id"
           /\ downloadDisplay = "block"
           /\ lastGeneratedBuffer # <<>>
           /\ LET o == lastGeneratedBuffer[1].origin
              IN  /\ o \in DOMAIN up
                  /\ up[o].pc = "done"
                  /\ HasResult(o, "fulfilled")
                  /\ lastGeneratedBuffer = up[o].result[1].audioBuffer
                  /\ idoutput = IdText(up[o].result[1].id)
        \/ /\ idoutput.kind = "error"
           /\ downloadDisplay = "none"

\* C10's case: two uploads with the same identifier and different buffers
\* have both finished
C10_Witness ==
    \E u, v \in DOMAIN up :
        /\ u # v
        /\ up[u].pc = "done" /\ up[v].pc = "done"
        /\ HasResult(u, "fulfilled") /\ HasResult(v, "fulfilled")
        /\ up[u].result[1].id = up[v].result[1].id
        /\ up[u].result[1].audioBuffer[1].data # up[v].result[1].audioBuffer[1].data
        /\ idoutput.kind = "id"
        /\ lastGeneratedBuffer[1].origin = u

====
